---------------------------- MODULE Spec2Model ----------------------------
(***************************************************************************)
(* A model of the idable crate (src/src/lib.rs): the plain sequential      *)
(* generator Seq and the timestamped generator TimestampSeq.               *)
(*                                                                         *)
(* Every u64 of the source is a word of WordBits bits here (the model      *)
(* checker's integers are 32 bits wide): arithmetic wraps modulo           *)
(* 2^WordBits where the source's wraps modulo 2^64, and EPOCH is scaled    *)
(* down with it.                                                           *)
(***************************************************************************)
EXTENDS Integers, FiniteSets, Sequences, TLC

\* ------------------------------------------------------------- bounds ---
WordBits == 8       \* width of the model's u64
MaxSeqBits == 2     \* SEQUENCE_BITS ranges over 1..MaxSeqBits
MaxTicks == 3       \* idle clock ticks after the initial instant, one caller
MaxCalls == 6       \* TimestampSeq::next_id calls, one caller
MaxConcCalls == 3   \* TimestampSeq::next_id calls, concurrent callers
MaxConcTicks == 1   \* idle clock ticks, concurrent callers
NumThreads == 2     \* concurrent callers
MaxSeqOps == 5      \* operations on a Seq
MaxBelowEpoch == 1  \* how far before EPOCH the clock may be set back

\* ---------------------------------------------------------- constants ---
EPOCH == 2          \* pub const EPOCH (scaled to the model's word)

Word == 2 ^ WordBits
Threads == 1 .. NumThreads

\* ------------------------------------------------------ u64 arithmetic ---
RECURSIVE BitAnd(_, _)
BitAnd(a, b) ==
    IF a = 0 \/ b = 0 THEN 0
    ELSE (IF a % 2 = 1 /\ b % 2 = 1 THEN 1 ELSE 0) + 2 * BitAnd(a \div 2, b \div 2)

RECURSIVE BitOr(_, _)
BitOr(a, b) ==
    IF a = 0 THEN b
    ELSE IF b = 0 THEN a
    ELSE (IF a % 2 = 1 \/ b % 2 = 1 THEN 1 ELSE 0) + 2 * BitOr(a \div 2, b \div 2)

\* x << k on a u64: the bits shifted out are lost
Shl(x, k) == (x * 2 ^ k) % Word
\* x >> k
Shr(x, k) == x \div 2 ^ k
\* a - b, as the release build computes it
WrappingSub(a, b) == (a - b) % Word
\* AtomicU64::fetch_add's new value
WrappingAdd(a, b) == (a + b) % Word

\* ------------------------------------------------------------- state ---
VARIABLES
    counter,              \* Seq.0
    ctor,                 \* how the Seq was constructed: "new" or "from"
    seed,                 \* the value the Seq was constructed with
    seq_log,              \* the Seq's operations so far, in order, each with
                          \* the counter before and after it
    SEQUENCE_BITS,        \* the build's SEQUENCE_BITS
    overflow_checks,      \* whether the build checks integer overflow
    sequence,             \* TimestampSeq.sequence
    last_cycle_timestamp, \* TimestampSeq.last_cycle_timestamp
    clock,                \* what get_timestamp() returns now
    pc,                   \* each caller's position in next_id
    raw,                  \* each caller's fetch_add result, before the mask
    sequence_l,           \* next_id's local `sequence`
    new_timestamp,        \* next_id's local `new_timestamp`
    last_timestamp,       \* next_id's local `last_timestamp`
    wait_last,            \* wait_next_millis's local `last_timestamp`
    waited,               \* whether the call went through wait_next_millis
    call_clock,           \* the clock when the call began
    returned              \* the calls that have returned

seqVars == <<counter, ctor, seed, seq_log>>
tsVars == <<SEQUENCE_BITS, overflow_checks, sequence, last_cycle_timestamp, clock, pc, raw,
            sequence_l, new_timestamp, last_timestamp, wait_last, waited,
            call_clock, returned>>
vars == <<counter, ctor, seed, seq_log, SEQUENCE_BITS, overflow_checks,
          sequence, last_cycle_timestamp, clock, pc, raw, sequence_l, new_timestamp,
          last_timestamp, wait_last, waited, call_clock, returned>>

\* const TIMESTAMP_SHIFT: u8 = SEQUENCE_BITS
TIMESTAMP_SHIFT == SEQUENCE_BITS
\* const SEQUENCE_MASK: u64 = (1 << SEQUENCE_BITS) - 1
SEQUENCE_MASK == Shl(1, SEQUENCE_BITS) - 1

\* --------------------------------------------------------------- Seq ---
\* Seq::new: Seq(SIDGEN::new(0))
Seq_new == 0
\* impl From<SID> for Seq: Seq(SIDGEN::new(value))
Seq_from(value) == value
\* the seeds From<SID> is tried with: both ends of the u64 range
SeedValues == {0, 1, 2, Word - 2, Word - 1}

\* (mutant) an addition that does not wrap at the top of the range
fetch_add_no_wrap(cur, val) == cur + val
\* (mutant) an update that is lost: the counter is left as it was
fetch_add_lost(cur, val) == cur
\* AtomicU64::fetch_add(val): the value stored; the call returns the old one
fetch_add(cur, val) == WrappingAdd(cur, val)
\* (mutant) a plain store where the maximum is meant
fetch_max_as_store(cur, val) == val
\* (mutant) an addition where the maximum is meant
fetch_max_as_add(cur, val) == WrappingAdd(cur, val)
\* AtomicU64::fetch_max(val): the value stored
fetch_max(cur, val) == IF val > cur THEN val ELSE cur

\* Seq::next_id: self.0.fetch_add(1, SeqCst)
Seq_next_id ==
    /\ Len(seq_log) < MaxSeqOps
    /\ counter' = fetch_add(counter, 1)
    /\ seq_log' = Append(seq_log, [op |-> "next_id", ret |-> counter,
                                   pre |-> counter, post |-> counter'])
    /\ UNCHANGED <<ctor, seed>>
    /\ UNCHANGED tsVars

\* (mutant) a reset to 1, the value the doc comment names
Seq_reset_to_one ==
    /\ Len(seq_log) < MaxSeqOps
    /\ counter' = 1
    /\ seq_log' = Append(seq_log, [op |-> "reset", ret |-> 0,
                                   pre |-> counter, post |-> counter'])
    /\ UNCHANGED <<ctor, seed>>
    /\ UNCHANGED tsVars

\* Seq::reset: self.0.store(0, Release)
Seq_reset ==
    /\ Len(seq_log) < MaxSeqOps
    /\ counter' = 0
    /\ seq_log' = Append(seq_log, [op |-> "reset", ret |-> 0,
                                   pre |-> counter, post |-> counter'])
    /\ UNCHANGED <<ctor, seed>>
    /\ UNCHANGED tsVars

\* ------------------------------------------------------ TimestampSeq ---
\* (mutant) a coarser unit than the millisecond (as_secs for as_millis)
get_timestamp_coarse == clock \div 2
\* get_timestamp: the wall clock in milliseconds
get_timestamp == clock

\* (mutant) the cycle check never finds the millisecond unchanged
NeedsWait_never(last, new) == FALSE
\* next_id: if last_timestamp == new_timestamp
NeedsWait(last, new) == last = new
\* (mutant) a busy-wait that ends in the millisecond it waits out
SpinExit_at_equal(now, last) == ~(now < last)
\* (mutant) the comparison of the busy-wait turned round
SpinExit_inverted(now, last) == ~(now >= last)
\* wait_next_millis: while get_timestamp() <= last_timestamp {}
SpinExit(now, last) == ~(now <= last)
\* (mutant) the shift taken to bind looser than the or
PackId_precedence(ts, s) ==
    Shl(WrappingSub(ts, EPOCH), BitOr(TIMESTAMP_SHIFT, s))
\* next_id: (new_timestamp - EPOCH) << TIMESTAMP_SHIFT | sequence
PackId(ts, s) == BitOr(Shl(WrappingSub(ts, EPOCH), TIMESTAMP_SHIFT), s)
\* (mutant) the timestamp shifted down one bit too far
into_parts_off_by_one(id) ==
    <<Shr(id, TIMESTAMP_SHIFT + 1), BitAnd(id, SEQUENCE_MASK)>>
\* into_parts: (timestamp >> TIMESTAMP_SHIFT, timestamp & SEQUENCE_MASK)
into_parts(id) == <<Shr(id, TIMESTAMP_SHIFT), BitAnd(id, SEQUENCE_MASK)>>

\* next_id, line 126: the ID is packed and returned; the caller's locals die.
\* A build that checks overflow panics on new_timestamp - EPOCH when the
\* clock read is before EPOCH, and the call returns nothing.
Return(t, ts) ==
    /\ IF overflow_checks /\ ts < EPOCH
       THEN /\ returned' = returned
            /\ pc' = [pc EXCEPT ![t] = "panicked"]
       ELSE /\ returned' = returned \cup
                 {[th |-> t, raw |-> raw[t], seq |-> sequence_l[t], t |-> ts,
                   last |-> last_timestamp[t], waited |-> waited[t],
                   c0 |-> call_clock[t],
                   id |-> PackId(ts, sequence_l[t])]}
            /\ pc' = [pc EXCEPT ![t] = "idle"]
    /\ raw' = [raw EXCEPT ![t] = 0]
    /\ sequence_l' = [sequence_l EXCEPT ![t] = 0]
    /\ new_timestamp' = [new_timestamp EXCEPT ![t] = 0]
    /\ last_timestamp' = [last_timestamp EXCEPT ![t] = 0]
    /\ wait_last' = [wait_last EXCEPT ![t] = 0]
    /\ waited' = [waited EXCEPT ![t] = FALSE]
    /\ call_clock' = [call_clock EXCEPT ![t] = 0]

\* next_id, line 115: self.sequence.fetch_add(1, SeqCst) & SEQUENCE_MASK
FetchAdd(t, limit) ==
    /\ pc[t] = "idle"
    /\ sequence < limit
    /\ raw' = [raw EXCEPT ![t] = sequence]
    /\ sequence_l' = [sequence_l EXCEPT ![t] = BitAnd(sequence, SEQUENCE_MASK)]
    /\ sequence' = fetch_add(sequence, 1)
    /\ call_clock' = [call_clock EXCEPT ![t] = clock]
    /\ pc' = [pc EXCEPT ![t] = "read_clock"]
    /\ UNCHANGED <<last_cycle_timestamp, clock, new_timestamp, last_timestamp,
                   wait_last, waited, returned, SEQUENCE_BITS, overflow_checks>>
    /\ UNCHANGED seqVars

\* (mutant) the cycle check made by every call, whatever its sequence
ReadClock_always_checks(t) ==
    /\ pc[t] = "read_clock"
    /\ new_timestamp' = [new_timestamp EXCEPT ![t] = get_timestamp]
    /\ pc' = [pc EXCEPT ![t] = "load_last"]
    /\ UNCHANGED <<raw, sequence_l, last_timestamp, wait_last, waited,
                   call_clock, returned>>
    /\ UNCHANGED <<sequence, last_cycle_timestamp, clock, SEQUENCE_BITS, overflow_checks>>
    /\ UNCHANGED seqVars

\* next_id, lines 116 and 118: let mut new_timestamp = get_timestamp(), and
\* the test of the sequence; a call whose sequence is not 0 goes on to line 126
ReadClock(t) ==
    /\ pc[t] = "read_clock"
    /\ IF sequence_l[t] = 0
       THEN /\ new_timestamp' = [new_timestamp EXCEPT ![t] = get_timestamp]
            /\ pc' = [pc EXCEPT ![t] = "load_last"]
            /\ UNCHANGED <<raw, sequence_l, last_timestamp, wait_last, waited,
                           call_clock, returned>>
       ELSE Return(t, get_timestamp)
    /\ UNCHANGED <<sequence, last_cycle_timestamp, clock, SEQUENCE_BITS, overflow_checks>>
    /\ UNCHANGED seqVars

\* next_id, lines 119 and 120: the load of last_cycle_timestamp and the test
LoadLast(t) ==
    /\ pc[t] = "load_last"
    /\ last_timestamp' = [last_timestamp EXCEPT ![t] = last_cycle_timestamp]
    /\ pc' = [pc EXCEPT ![t] =
                IF NeedsWait(last_cycle_timestamp, new_timestamp[t])
                THEN "wait_load" ELSE "fetch_max"]
    /\ UNCHANGED <<sequence, last_cycle_timestamp, clock, raw, sequence_l,
                   new_timestamp, wait_last, waited, call_clock, returned,
                   SEQUENCE_BITS, overflow_checks>>
    /\ UNCHANGED seqVars

\* wait_next_millis, line 93: its own load of last_cycle_timestamp
WaitLoad(t) ==
    /\ pc[t] = "wait_load"
    /\ wait_last' = [wait_last EXCEPT ![t] = last_cycle_timestamp]
    /\ waited' = [waited EXCEPT ![t] = TRUE]
    /\ pc' = [pc EXCEPT ![t] = "spin"]
    /\ UNCHANGED <<sequence, last_cycle_timestamp, clock, raw, sequence_l,
                   new_timestamp, last_timestamp, call_clock, returned,
                   SEQUENCE_BITS, overflow_checks>>
    /\ UNCHANGED seqVars

\* wait_next_millis, line 94: the iteration of the busy-wait that leaves it
\* (an iteration that stays changes nothing)
Spin(t) ==
    /\ pc[t] = "spin"
    /\ SpinExit(get_timestamp, wait_last[t])
    /\ pc' = [pc EXCEPT ![t] = "reread"]
    /\ UNCHANGED <<sequence, last_cycle_timestamp, clock, raw, sequence_l,
                   new_timestamp, last_timestamp, wait_last, waited, call_clock,
                   returned, SEQUENCE_BITS, overflow_checks>>
    /\ UNCHANGED seqVars

\* next_id, line 122: new_timestamp = get_timestamp()
Reread(t) ==
    /\ pc[t] = "reread"
    /\ new_timestamp' = [new_timestamp EXCEPT ![t] = get_timestamp]
    /\ pc' = [pc EXCEPT ![t] = "fetch_max"]
    /\ UNCHANGED <<sequence, last_cycle_timestamp, clock, raw, sequence_l,
                   last_timestamp, wait_last, waited, call_clock, returned,
                   SEQUENCE_BITS, overflow_checks>>
    /\ UNCHANGED seqVars

\* next_id, lines 124 and 126: self.last_cycle_timestamp.fetch_max(
\* new_timestamp, Release), and the return
FetchMax(t) ==
    /\ pc[t] = "fetch_max"
    /\ last_cycle_timestamp' = fetch_max(last_cycle_timestamp, new_timestamp[t])
    /\ Return(t, new_timestamp[t])
    /\ UNCHANGED <<sequence, clock, SEQUENCE_BITS, overflow_checks>>
    /\ UNCHANGED seqVars

\* The wall clock moves on by a millisecond. Idle time is bounded by limit
\* ticks; the millisecond a spinning caller waits for always comes.
Tick(limit) ==
    /\ \/ clock < EPOCH + limit
       \/ \E t \in Threads : pc[t] = "spin" /\ clock <= wait_last[t]
    /\ clock' = clock + 1
    /\ UNCHANGED <<sequence, last_cycle_timestamp, pc, raw, sequence_l,
                   new_timestamp, last_timestamp, wait_last, waited, call_clock,
                   returned, SEQUENCE_BITS, overflow_checks>>
    /\ UNCHANGED seqVars

\* The wall clock is set back by a millisecond (an adjusted system clock),
\* down to floor at the lowest.
ClockBack(floor) ==
    /\ clock > floor
    /\ clock' = clock - 1
    /\ UNCHANGED <<sequence, last_cycle_timestamp, pc, raw, sequence_l,
                   new_timestamp, last_timestamp, wait_last, waited, call_clock,
                   returned, SEQUENCE_BITS, overflow_checks>>
    /\ UNCHANGED seqVars

\* ---------------------------------------------------- specifications ---
\* Seq after new() or from(v); TimestampSeq after new(), clock at EPOCH or later
InitSeq ==
    /\ ctor \in {"new", "from"}
    /\ seed \in (IF ctor = "new" THEN {Seq_new} ELSE {Seq_from(v) : v \in SeedValues})
    /\ counter = seed
    /\ seq_log = <<>>

InitTimestampSeq ==
    /\ SEQUENCE_BITS \in 1 .. MaxSeqBits
    /\ overflow_checks \in BOOLEAN
    /\ sequence = 0
    /\ last_cycle_timestamp = 0
    /\ clock = EPOCH
    /\ pc = [t \in Threads |-> "idle"]
    /\ raw = [t \in Threads |-> 0]
    /\ sequence_l = [t \in Threads |-> 0]
    /\ new_timestamp = [t \in Threads |-> 0]
    /\ last_timestamp = [t \in Threads |-> 0]
    /\ wait_last = [t \in Threads |-> 0]
    /\ waited = [t \in Threads |-> FALSE]
    /\ call_clock = [t \in Threads |-> 0]
    /\ returned = {}

\* a TimestampSeq in use, beside a Seq nobody calls, under a clock that any
\* system may have and in either build
InitAnyClock == InitSeq /\ ctor = "new" /\ InitTimestampSeq
\* the same under a clock that stays at or after EPOCH, where the two builds
\* compute the same
Init == InitAnyClock /\ ~overflow_checks
\* a Seq in use, beside a TimestampSeq nobody calls
InitPlain == InitSeq /\ InitTimestampSeq /\ SEQUENCE_BITS = 1 /\ ~overflow_checks

\* one caller of TimestampSeq::next_id
Next ==
    \/ Tick(MaxTicks)
    \/ FetchAdd(1, MaxCalls)
    \/ ReadClock(1)
    \/ LoadLast(1)
    \/ WaitLoad(1)
    \/ Spin(1)
    \/ Reread(1)
    \/ FetchMax(1)

Spec == Init /\ [][Next]_vars

\* concurrent callers of TimestampSeq::next_id
NextConc ==
    \/ Tick(MaxConcTicks)
    \/ \E t \in Threads : FetchAdd(t, MaxConcCalls)
    \/ \E t \in Threads : ReadClock(t)
    \/ \E t \in Threads : LoadLast(t)
    \/ \E t \in Threads : WaitLoad(t)
    \/ \E t \in Threads : Spin(t)
    \/ \E t \in Threads : Reread(t)
    \/ \E t \in Threads : FetchMax(t)

SpecConc == Init /\ [][NextConc]_vars

\* two concurrent callers under a clock that may also be set back
Racers == {1, 2}

NextBack ==
    \/ Tick(MaxConcTicks)
    \/ ClockBack(EPOCH)
    \/ \E t \in Racers : FetchAdd(t, MaxConcCalls)
    \/ \E t \in Racers : ReadClock(t)
    \/ \E t \in Racers : LoadLast(t)
    \/ \E t \in Racers : WaitLoad(t)
    \/ \E t \in Racers : Spin(t)
    \/ \E t \in Racers : Reread(t)
    \/ \E t \in Racers : FetchMax(t)

SpecBack == Init /\ [][NextBack]_vars

\* one caller, in either build, under a clock that may be set back to before
\* EPOCH
NextPreEpoch ==
    \/ Tick(MaxConcTicks)
    \/ ClockBack(EPOCH - MaxBelowEpoch)
    \/ FetchAdd(1, MaxConcCalls)
    \/ ReadClock(1)
    \/ LoadLast(1)
    \/ WaitLoad(1)
    \/ Spin(1)
    \/ Reread(1)
    \/ FetchMax(1)

SpecPreEpoch == InitAnyClock /\ [][NextPreEpoch]_vars

\* the callers of a Seq
NextSeq == Seq_next_id \/ Seq_reset

SpecSeq == InitPlain /\ [][NextSeq]_vars

\* each caller's steps after the fetch-add
ThreadStep(t) ==
    \/ ReadClock(t)
    \/ LoadLast(t)
    \/ WaitLoad(t)
    \/ Spin(t)
    \/ Reread(t)
    \/ FetchMax(t)

\* concurrent callers, each scheduled again and again, under a live clock
SpecFair ==
    /\ Init
    /\ [][NextConc]_vars
    /\ WF_vars(Tick(MaxConcTicks))
    /\ \A t \in Threads : WF_vars(ThreadStep(t))

\* ------------------------------------------------------------ claims ---
\* the timestamp and the sequence component of an ID
TsComp(id) == into_parts(id)[1]
SeqComp(id) == into_parts(id)[2]
CycleLen == 2 ^ SEQUENCE_BITS

\* C1: every ID a TimestampSeq returns to its one caller differs from every
\* ID it returned before.
C1_SequentialIdsDistinct ==
    \A r1, r2 \in returned : r1.raw # r2.raw => r1.id # r2.id

C3_BoundaryTimestampsAdvance ==
    \A r1, r2 \in returned :
        (SeqComp(r1.id) = 0 /\ SeqComp(r2.id) = 0 /\ r1.raw < r2.raw) =>
            TsComp(r1.id) < TsComp(r2.id)

\* two boundary calls, the later one made in the millisecond of the earlier
C3_Witness ==
    \E r1, r2 \in returned :
        /\ r1.seq = 0 /\ r2.seq = 0
        /\ r1.raw < r2.raw
        /\ r2.waited
        /\ r2.last = r1.t

\* C4: under a live clock and with every caller scheduled again and again,
\* every next_id call that has begun returns.
C4_EveryCallReturns ==
    \A t \in Threads : (pc[t] # "idle") ~> (pc[t] = "idle")

\* a call that went through the busy-wait has returned, another caller's
\* call still under way
C4_Witness ==
    \E r \in returned :
        /\ r.waited
        /\ r.t > r.last
        /\ \E t \in Threads : t # r.th /\ pc[t] # "idle"

\* C5: into_parts gives back what next_id packed: the clock value less EPOCH
\* and the sequence value modulo 2^SEQUENCE_BITS.
C5_IntoPartsInvertsPacking ==
    \A r \in returned :
        (r.t >= EPOCH /\ r.t - EPOCH < 2 ^ (WordBits - SEQUENCE_BITS)) =>
            into_parts(r.id) = <<r.t - EPOCH, r.raw % CycleLen>>

\* an ID of a later cycle and a later millisecond, its sequence part not 0
C5_Witness ==
    \E r \in returned :
        /\ r.raw > CycleLen
        /\ r.raw % CycleLen # 0
        /\ r.t > EPOCH
        /\ r.t - EPOCH < 2 ^ (WordBits - SEQUENCE_BITS)

\* C6: with no reset, a Seq returns seed, seed+1, seed+2, ... modulo the word,
\* seed being 0 after new(), and each call adds 1 to the counter.
NoReset == \A i \in 1 .. Len(seq_log) : seq_log[i].op = "next_id"

FirstThree == {r \in returned : r.raw < 3}

C8_FirstThreeDistinct ==
    \A r1, r2 \in FirstThree : r1.raw # r2.raw => r1.id # r2.id

\* width 1: the third call is a rollover in the millisecond of the first
C8_Witness ==
    /\ SEQUENCE_BITS = 1
    /\ Cardinality(FirstThree) = 3
    /\ \E r1, r3 \in FirstThree :
          r1.raw = 0 /\ r3.raw = 2 /\ r3.waited /\ r3.last = r1.t

\* C9: of two calls of one caller made in one millisecond with no wrap of the
\* masked sequence to 0 between them, the later returns the greater ID; and
\* the second ID of a new generator is greater than the first.
NoWrapBetween(r1, r2) ==
    \A k \in (r1.raw + 1) .. r2.raw : k % CycleLen # 0

C9_SameMillisecondIdsIncrease ==
    /\ \A r1, r2 \in returned :
          (r1.raw < r2.raw /\ r2.t = r1.c0 /\ NoWrapBetween(r1, r2)) =>
              r2.id > r1.id
    /\ \A r1, r2 \in returned :
          (r1.raw = 0 /\ r2.raw = 1) => r2.id > r1.id

\* two calls of one millisecond in a later cycle, and the first two calls
C9_Witness ==
    /\ \E r1, r2 \in returned :
          /\ r1.raw > CycleLen /\ r1.raw < r2.raw
          /\ r2.t = r1.c0
          /\ NoWrapBetween(r1, r2)
    /\ \E r1, r2 \in returned : r1.raw = 0 /\ r2.raw = 1

\* C10: when the clock advances between two calls of one caller, the later
\* ID's timestamp component is strictly greater.
C10_TickBetweenCallsAdvancesTimestamp ==
    \A r1, r2 \in returned :
        (r1.raw < r2.raw /\ r2.c0 > r1.t) => TsComp(r2.id) > TsComp(r1.id)

\* a tick between a call and the boundary call after it
C10_Witness ==
    \E r1, r2 \in returned :
        /\ r2.raw = r1.raw + 1
        /\ r2.c0 > r1.t
        /\ r2.seq = 0

\* C11: last_cycle_timestamp never decreases, whatever the callers'
\* interleaving and whether the clock moves forwards or backwards.
C11_RatchetNeverGoesBack ==
    [][last_cycle_timestamp' >= last_cycle_timestamp]_vars

\* a boundary call has ratcheted with a reading below the stored value, the
\* clock having been set back below it
C11_Witness ==
    \E r \in returned :
        /\ r.seq = 0
        /\ r.t < last_cycle_timestamp
        /\ clock < last_cycle_timestamp

\* C12: every call draws its own sequence value: the values drawn so far are
\* 0 .. sequence-1, one per call, each call's masked sequence is its value
\* modulo 2^SEQUENCE_BITS, and the counter is the number of calls past the
\* fetch-add.
InFlight == {t \in Threads : pc[t] # "idle"}
Drawn == {r.raw : r \in returned} \cup {raw[t] : t \in InFlight}

C12_EachCallDrawsItsOwnValue ==
    /\ Drawn = 0 .. (sequence - 1)
    /\ Cardinality(returned) + Cardinality(InFlight) = sequence
    /\ \A r1, r2 \in returned : r1.raw = r2.raw => r1 = r2
    /\ \A r \in returned : r.seq = r.raw % CycleLen
    /\ \A t \in InFlight : sequence_l[t] = raw[t] % CycleLen

\* every caller is inside a call, past a returned one, and the masked
\* sequence has wrapped
C12_Witness ==
    /\ InFlight = Threads
    /\ returned # {}
    /\ sequence > CycleLen
    /\ \E t \in InFlight : raw[t] >= CycleLen

C14_NoIdFromWrappedSubtraction ==
    \A r \in returned : r.t >= EPOCH

\* C15: the first next_id after Seq::new() and the first next_id after a
\* reset return 1.
C15_SeqStartsAndResetsAtOne ==
    /\ (ctor = "new" /\ Len(seq_log) >= 1 /\ seq_log[1].op = "next_id") =>
           seq_log[1].ret = 1
    /\ \A i \in 1 .. Len(seq_log) - 1 :
           (seq_log[i].op = "reset" /\ seq_log[i + 1].op = "next_id") =>
               seq_log[i + 1].ret = 1

C17_BoundaryInSameMillisecondWaits ==
    /\ \A r \in returned :
          /\ r.waited => TsComp(r.id) + EPOCH > r.last
          /\ (r.seq = 0 /\ ~r.waited) => r.t # r.last
    /\ \A t \in Threads :
          (pc[t] = "fetch_max" /\ ~waited[t]) =>
              new_timestamp[t] # last_timestamp[t]
    /\ \A t \in Threads :
          pc[t] \in {"wait_load", "spin"} => new_timestamp[t] = last_timestamp[t]

\* a boundary call has waited and returned while another caller's call was
\* under way
C17_Witness ==
    \E r \in returned :
        /\ r.seq = 0
        /\ r.waited
        /\ r.last >= EPOCH
        /\ \E t \in Threads : t # r.th /\ pc[t] # "idle"

\* C18: a call whose masked sequence is not 0 neither loads nor changes
\* last_cycle_timestamp and never enters the busy-wait; only a boundary
\* call's fetch_max changes last_cycle_timestamp; and every call adds exactly
\* 1 to the sequence counter, at its start.
BoundaryOnlySteps == {"load_last", "wait_load", "spin", "reread", "fetch_max"}

C18_OnlyBoundaryCallsTouchTheGuard ==
    [][ /\ \A t \in Threads :
              pc'[t] \in BoundaryOnlySteps => sequence_l'[t] = 0
        /\ last_cycle_timestamp' # last_cycle_timestamp =>
              \E t \in Threads :
                  pc[t] = "fetch_max" /\ sequence_l[t] = 0 /\ pc'[t] = "idle"
        /\ \A t \in Threads :
              (pc[t] = "idle" /\ pc'[t] # "idle") => sequence' = sequence + 1
        /\ sequence' # sequence =>
              /\ sequence' = sequence + 1
              /\ \E t \in Threads : pc[t] = "idle" /\ pc'[t] = "read_clock"
        /\ \A r \in returned' \ returned :
              r.seq # 0 => ~r.waited /\ r.last = 0 ]_vars

\* a call whose sequence is not 0 has returned, the guard set by the boundary
\* call before it, while the next boundary call is in the busy-wait
C18_Witness ==
    \E r \in returned :
        /\ r.seq # 0
        /\ last_cycle_timestamp >= EPOCH
        /\ \E t \in Threads : t # r.th /\ pc[t] = "spin"

\* C19: last_cycle_timestamp is never ahead of the clock; and when one caller
\* alone has used the generator and its last call was a boundary call,
\* last_cycle_timestamp is EPOCH plus that call's timestamp component.
OnlyCaller(t) ==
    /\ \A r \in returned : r.th = t
    /\ \A u \in Threads : pc[u] = "idle"

C19_GuardHoldsAClockReading ==
    /\ last_cycle_timestamp <= clock
    /\ \A t \in Threads :
          OnlyCaller(t) =>
              \A r \in returned :
                  (r.raw = sequence - 1 /\ r.seq = 0) =>
                      last_cycle_timestamp = EPOCH + TsComp(r.id)

\* one caller's boundary call of a later cycle has just returned after the
\* busy-wait, the clock still at the millisecond it packed
C19_Witness ==
    \E t \in Threads :
        /\ OnlyCaller(t)
        /\ \E r \in returned :
              /\ r.raw = sequence - 1
              /\ r.seq = 0
              /\ r.raw > 0
              /\ r.waited
              /\ last_cycle_timestamp = clock

==========================================================================
